---- MODULE Spec2Model ----
(***************************************************************************)
(* A model of the EVAL-LINK-UPDATE forest with path compression            *)
(* (CompressedForest in src/src/forest.rs, Node in src/src/node.rs, the    *)
(* operator abstraction of src/src/operation.rs).                          *)
(*                                                                         *)
(* Handles: the Rust code indexes Vec<Node> from 0; here nodes is a TLA+   *)
(* sequence, so the handle of the i-th created node is i (1-based) and     *)
(* parent = None (0) stands for Option::None.                              *)
(***************************************************************************)
EXTENDS Integers, Sequences, FiniteSets, TLC

\* ------------------------------------------------------------------ bounds

\* the largest number of nodes new_root may create
MaxNodes == 4

\* the bounded signed integers of the checked addition are -MaxInt..MaxInt
MaxInt == 2

\* the letters of the concatenation operator's alphabet
Letters == {1, 2}

\* ------------------------------------------------------------- operators

None == 0

\* Result<V, E>: Ok(v) or Err(e); Ok(()) is Ok(Unit)
Unit == 0
Ok(v) == [ok |-> TRUE, v |-> v]
Err(e) == [ok |-> FALSE, v |-> e]

\* Sequences over Letters are encoded as numerals in base Base whose digits
\* are the letters (no digit 0), so that concatenation is exact.
Base == Cardinality(Letters) + 1

RECURSIVE Digits(_)
Digits(n) == IF n < Base THEN 1 ELSE 1 + Digits(n \div Base)

RECURSIVE Pow(_, _)
Pow(b, e) == IF e = 0 THEN 1 ELSE b * Pow(b, e - 1)

\* a total, associative, non-commutative operator: sequence concatenation
Concat(lhs, rhs) == lhs * Pow(Base, Digits(rhs)) + rhs

\* the error FailAll reports names the pair it was given
PairError(lhs, rhs) == lhs * 10 + rhs

\* the error the checked addition reports: the direction of the overflow
Overflow(sum) == IF sum > 0 THEN 1 ELSE -1

\* AssociativeOperation::associate for the operator o, one of "Concat",
\* "CheckedAdd" (FallibleCloneAdd over the integers -MaxInt..MaxInt) and
\* "FailAll"
associate(o, lhs, rhs) ==
    CASE o = "Concat" -> Ok(Concat(lhs, rhs))
      [] o = "CheckedAdd" ->
            IF lhs + rhs \in (-MaxInt)..MaxInt
            THEN Ok(lhs + rhs)
            ELSE Err(Overflow(lhs + rhs))
      [] o = "FailAll" -> Err(PairError(lhs, rhs))

\* the values a caller hands to try_update
UpdateValues(o) ==
    CASE o = "Concat" -> Letters
      [] o = "CheckedAdd" -> {-1, 1}
      [] o = "FailAll" -> {2}

\* the values a caller hands to new_root
NewRootValues(o) == IF o = "FailAll" THEN {1} ELSE UpdateValues(o)

\* ------------------------------------------------------------------ Node

\* Node::new_root
new_root(value) == [parent |-> None, value |-> value]

\* Node::set_parent
set_parent(node, parent) == [node EXCEPT !.parent = parent]

\* Node::set_value
set_value(node, value) == [node EXCEPT !.value = value]

\* Node::is_root
is_root(node) == node.parent = None

\* -------------------------------------------------------- CompressedForest

\* what an operation leaves behind: the node storage, the Result it returns
\* and the associate calls it made, in order, as <<lhs, rhs>> pairs
Outcome(ns, res, log) == [nodes |-> ns, res |-> res, log |-> log]

\* compress reparenting key before the fallible combine is checked
RECURSIVE compress_reparent_early(_, _, _)
compress_reparent_early(o, ns, key) ==
    LET parent_key == ns[key].parent IN
    IF is_root(ns[parent_key])
    THEN Outcome(ns, Ok(Unit), <<>>)
    ELSE LET c == compress_reparent_early(o, ns, parent_key) IN
         IF ~c.res.ok
         THEN c
         ELSE LET current_val == c.nodes[key].value
                  parent_val == c.nodes[parent_key].value
                  parent_parent == c.nodes[parent_key].parent
                  merged_values == associate(o, parent_val, current_val)
                  log == Append(c.log, <<parent_val, current_val>>)
                  moved == [c.nodes EXCEPT ![key] = set_parent(@, parent_parent)]
              IN  IF ~merged_values.ok
                  THEN Outcome(moved, merged_values, log)
                  ELSE Outcome(
                         [moved EXCEPT ![key] = set_value(@, merged_values.v)],
                         Ok(Unit), log)

\* compress taking the grandparent of key before the recursive call instead
\* of the parent's parent after it
RECURSIVE compress_stale_grandparent(_, _, _)
compress_stale_grandparent(o, ns, key) ==
    LET parent_key == ns[key].parent IN
    IF is_root(ns[parent_key])
    THEN Outcome(ns, Ok(Unit), <<>>)
    ELSE LET c == compress_stale_grandparent(o, ns, parent_key) IN
         IF ~c.res.ok
         THEN c
         ELSE LET current_val == c.nodes[key].value
                  parent_val == c.nodes[parent_key].value
                  parent_parent == ns[parent_key].parent
                  merged_values == associate(o, parent_val, current_val)
                  log == Append(c.log, <<parent_val, current_val>>)
              IN  IF ~merged_values.ok
                  THEN Outcome(c.nodes, merged_values, log)
                  ELSE Outcome(
                         [c.nodes EXCEPT ![key] =
                            set_parent(set_value(@, merged_values.v), parent_parent)],
                         Ok(Unit), log)

\* CompressedForest::compress; key is not a root
RECURSIVE compress(_, _, _)
compress(o, ns, key) ==
    LET parent_key == ns[key].parent IN
    IF is_root(ns[parent_key])
    THEN Outcome(ns, Ok(Unit), <<>>)
    ELSE LET c == compress(o, ns, parent_key) IN
         IF ~c.res.ok
         THEN c
         ELSE LET current_val == c.nodes[key].value
                  parent_val == c.nodes[parent_key].value
                  parent_parent == c.nodes[parent_key].parent
                  merged_values == associate(o, parent_val, current_val)
                  log == Append(c.log, <<parent_val, current_val>>)
              IN  IF ~merged_values.ok
                  THEN Outcome(c.nodes, merged_values, log)
                  ELSE Outcome(
                         [c.nodes EXCEPT ![key] =
                            set_parent(set_value(@, merged_values.v), parent_parent)],
                         Ok(Unit), log)

\* new_root taking the length for the handle after the push
forest_new_root_index_after_push(ns, value) ==
    LET pushed == Append(ns, new_root(value)) IN
    Outcome(pushed, Ok(Len(pushed) + 1), <<>>)

\* CompressedForest::new_root; the handle is the position of the pushed node
forest_new_root(ns, value) ==
    LET index == Len(ns) + 1 IN
    Outcome(Append(ns, new_root(value)), Ok(index), <<>>)

\* try_eval storing the fold it returns in the node it was asked about
try_eval_writeback(o, ns, id) ==
    LET c == IF ~is_root(ns[id]) THEN compress(o, ns, id)
                                 ELSE Outcome(ns, Ok(Unit), <<>>)
    IN  IF ~c.res.ok
        THEN c
        ELSE LET node == c.nodes[id] IN
             IF node.parent = None
             THEN Outcome(c.nodes, Ok(node.value), c.log)
             ELSE LET parent == c.nodes[node.parent]
                      folded == associate(o, parent.value, node.value)
                      log == Append(c.log, <<parent.value, node.value>>)
                  IN  IF ~folded.ok
                      THEN Outcome(c.nodes, folded, log)
                      ELSE Outcome([c.nodes EXCEPT ![id] = set_value(@, folded.v)],
                                   folded, log)

\* try_eval with the operands of its final combine exchanged
try_eval_commuted(o, ns, id) ==
    LET c == IF ~is_root(ns[id]) THEN compress(o, ns, id)
                                 ELSE Outcome(ns, Ok(Unit), <<>>)
    IN  IF ~c.res.ok
        THEN c
        ELSE LET node == c.nodes[id] IN
             IF node.parent = None
             THEN Outcome(c.nodes, Ok(node.value), c.log)
             ELSE LET parent == c.nodes[node.parent] IN
                  Outcome(c.nodes,
                          associate(o, node.value, parent.value),
                          Append(c.log, <<node.value, parent.value>>))

\* CompressedForest::try_eval
try_eval(o, ns, id) ==
    LET c == IF ~is_root(ns[id]) THEN compress(o, ns, id)
                                 ELSE Outcome(ns, Ok(Unit), <<>>)
    IN  IF ~c.res.ok
        THEN c
        ELSE LET node == c.nodes[id] IN
             IF node.parent = None
             THEN Outcome(c.nodes, Ok(node.value), c.log)
             ELSE LET parent == c.nodes[node.parent] IN
                  Outcome(c.nodes,
                          associate(o, parent.value, node.value),
                          Append(c.log, <<parent.value, node.value>>))

\* link_roots compensating root_b's value also when id_a is the root
link_roots_always_compensate(o, ns, id_a, root_a_key, root_b_key, log) ==
    LET n1 == [ns EXCEPT ![root_b_key] = set_parent(@, root_a_key)]
        new_value == associate(o, n1[id_a].value, n1[root_b_key].value)
        log2 == Append(log, <<n1[id_a].value, n1[root_b_key].value>>)
    IN  IF ~new_value.ok
        THEN Outcome(n1, new_value, log2)
        ELSE Outcome([n1 EXCEPT ![root_b_key] = set_value(@, new_value.v)],
                     Ok(Unit), log2)

\* link_roots with the operands of the compensation exchanged
link_roots_commuted(o, ns, id_a, root_a_key, root_b_key, log) ==
    LET n1 == [ns EXCEPT ![root_b_key] = set_parent(@, root_a_key)] IN
    IF root_a_key # id_a
    THEN LET new_value == associate(o, n1[root_b_key].value, n1[id_a].value)
             log2 == Append(log, <<n1[root_b_key].value, n1[id_a].value>>)
         IN  IF ~new_value.ok
             THEN Outcome(n1, new_value, log2)
             ELSE Outcome([n1 EXCEPT ![root_b_key] = set_value(@, new_value.v)],
                          Ok(Unit), log2)
    ELSE Outcome(n1, Ok(Unit), log)

\* link_roots without the compensation of root_b's value
link_roots_uncompensated(o, ns, id_a, root_a_key, root_b_key, log) ==
    Outcome([ns EXCEPT ![root_b_key] = set_parent(@, root_a_key)], Ok(Unit), log)

\* link_roots hanging root_b under id_a itself, as the reference LINK does
link_roots_literal(o, ns, id_a, root_a_key, root_b_key, log) ==
    Outcome([ns EXCEPT ![root_b_key] = set_parent(@, id_a)], Ok(Unit), log)

\* link_roots hanging root_a under root_b, the two roots taken in the wrong
\* order
link_roots_reversed(o, ns, id_a, root_a_key, root_b_key, log) ==
    Outcome([ns EXCEPT ![root_a_key] = set_parent(@, root_b_key)], Ok(Unit), log)

\* the second half of try_link, from the reparenting of root_b on
link_roots(o, ns, id_a, root_a_key, root_b_key, log) ==
    LET n1 == [ns EXCEPT ![root_b_key] = set_parent(@, root_a_key)] IN
    IF root_a_key # id_a
    THEN LET new_value == associate(o, n1[id_a].value, n1[root_b_key].value)
             log2 == Append(log, <<n1[id_a].value, n1[root_b_key].value>>)
         IN  IF ~new_value.ok
             THEN Outcome(n1, new_value, log2)
             ELSE Outcome([n1 EXCEPT ![root_b_key] = set_value(@, new_value.v)],
                          Ok(Unit), log2)
    ELSE Outcome(n1, Ok(Unit), log)

\* CompressedForest::try_link
try_link(o, ns, id_a, id_b) ==
    LET ca == IF is_root(ns[id_a]) THEN Outcome(ns, Ok(Unit), <<>>)
                                   ELSE compress(o, ns, id_a)
    IN  IF ~ca.res.ok
        THEN ca
        ELSE LET root_a_key == IF is_root(ns[id_a]) THEN id_a
                                                    ELSE ca.nodes[id_a].parent
                 cb == IF is_root(ca.nodes[id_b])
                       THEN Outcome(ca.nodes, Ok(Unit), ca.log)
                       ELSE LET c == compress(o, ca.nodes, id_b)
                            IN  Outcome(c.nodes, c.res, ca.log \o c.log)
             IN  IF ~cb.res.ok
                 THEN cb
                 ELSE LET root_b_key == IF is_root(ca.nodes[id_b]) THEN id_b
                                        ELSE cb.nodes[id_b].parent
                      IN  link_roots(o, cb.nodes, id_a, root_a_key, root_b_key, cb.log)

\* try_update writing into the stored parent without compressing first
try_update_stale_parent(o, ns, id, value) ==
    IF is_root(ns[id])
    THEN Outcome([ns EXCEPT ![id] = set_value(@, value)], Ok(Unit), <<>>)
    ELSE Outcome([ns EXCEPT ![ns[id].parent] = set_value(@, value)], Ok(Unit), <<>>)

\* try_update writing the value into the named node instead of its root
try_update_local(o, ns, id, value) ==
    Outcome([ns EXCEPT ![id] = set_value(@, value)], Ok(Unit), <<>>)

\* CompressedForest::try_update
try_update(o, ns, id, value) ==
    IF is_root(ns[id])
    THEN Outcome([ns EXCEPT ![id] = set_value(@, value)], Ok(Unit), <<>>)
    ELSE LET c == compress(o, ns, id) IN
         IF ~c.res.ok
         THEN c
         ELSE LET parent_key == c.nodes[id].parent IN
              Outcome([c.nodes EXCEPT ![parent_key] = set_value(@, value)],
                      Ok(Unit), c.log)

\* ------------------------------------------------- the reference forest

\* The forest of the crate documentation, with no compression: every node
\* keeps the value it was given and the parent it was literally linked to.

\* the root of the tree of n, following the parent pointers of f
RECURSIVE RootOf(_, _)
RootOf(f, n) == IF f[n].parent = None THEN n ELSE RootOf(f, f[n].parent)

\* the values on the path from the root of n's tree down to n
RECURSIVE PathValues(_, _)
PathValues(f, n) ==
    IF f[n].parent = None THEN <<f[n].value>>
    ELSE Append(PathValues(f, f[n].parent), f[n].value)

\* the left-to-right fold of a non-empty sequence of values
RECURSIVE FoldLeft(_, _)
FoldLeft(o, vals) ==
    IF Len(vals) = 1 THEN Ok(vals[1])
    ELSE LET init == FoldLeft(o, SubSeq(vals, 1, Len(vals) - 1)) IN
         IF ~init.ok THEN init ELSE associate(o, init.v, vals[Len(vals)])

\* EVAL(n) of the documentation: value(r) (+) ... (+) value(n)
RefEval(o, f, n) == FoldLeft(o, PathValues(f, n))

\* LINK(n, m) of the documentation: the root of m's tree becomes a child of n
RefLink(f, n, m) == [f EXCEPT ![RootOf(f, m)] = set_parent(@, n)]

\* UPDATE(n, v) of the documentation: the root of n's tree takes the value v
RefUpdate(f, n, v) == [f EXCEPT ![RootOf(f, n)] = set_value(@, v)]

\* ----------------------------------------------------------------- state

VARIABLES
    op,      \* the operator O the forest is instantiated with
    nodes,   \* CompressedForest::nodes
    ref,     \* the reference forest of the same calls
    last     \* the last call: whether it returned Ok

vars == <<op, nodes, ref, last>>

Ids == 1..Len(nodes)

Call(res) == [ok |-> res.ok]

\* CompressedForest::new, for the operator o (a type parameter of the forest)
InitWith(o) ==
    /\ op = o
    /\ nodes = <<>>
    /\ ref = <<>>
    /\ last = Call(Ok(Unit))

\* CompressedForest::new_root
NewRoot(value) ==
    /\ Len(nodes) < MaxNodes
    /\ LET r == forest_new_root(nodes, value) IN
       /\ nodes' = r.nodes
       /\ last' = Call(r.res)
    /\ ref' = Append(ref, new_root(value))
    /\ UNCHANGED op

\* CompressedForest::try_link on nodes of two different trees
Link(id_a, id_b) ==
    /\ RootOf(nodes, id_a) # RootOf(nodes, id_b)
    /\ LET r == try_link(op, nodes, id_a, id_b) IN
       /\ nodes' = r.nodes
       /\ ref' = IF r.res.ok THEN RefLink(ref, id_a, id_b) ELSE ref
       /\ last' = Call(r.res)
    /\ UNCHANGED op

\* CompressedForest::try_update
Update(id, value) ==
    /\ LET r == try_update(op, nodes, id, value) IN
       /\ nodes' = r.nodes
       /\ ref' = IF r.res.ok THEN RefUpdate(ref, id, value) ELSE ref
       /\ last' = Call(r.res)
    /\ UNCHANGED op

\* CompressedForest::try_eval
Eval(id) ==
    /\ LET r == try_eval(op, nodes, id) IN
       /\ nodes' = r.nodes
       /\ last' = Call(r.res)
    /\ UNCHANGED <<op, ref>>

Next ==
    \/ \E value \in NewRootValues(op) : NewRoot(value)
    \/ \E id_a \in Ids, id_b \in Ids : Link(id_a, id_b)
    \/ \E id \in Ids, value \in UpdateValues(op) : Update(id, value)
    \/ \E id \in Ids : Eval(id)

\* the forest over sequence concatenation: total, not commutative
Init == InitWith("Concat")
Spec == Init /\ [][Next]_vars

\* the forest over checked addition of bounded signed integers
InitChecked == InitWith("CheckedAdd")
SpecChecked == InitChecked /\ [][Next]_vars

\* the forest over an operator that fails on every pair; fresh roots hold 1
\* and updated roots 2, so that the error names which values met
InitFailAll == InitWith("FailAll")
SpecFailAll == InitFailAll /\ [][Next]_vars

\* ------------------------------------------- links inside one tree allowed

\* the node reached from n by i parent hops in the forest f, or the root
\* that ends the chain before that
RECURSIVE Up(_, _, _)
Up(f, n, i) ==
    IF i = 0 \/ f[n].parent = None THEN n ELSE Up(f, f[n].parent, i - 1)

\* the parent chain of n ends at a root; a chain of a forest of Len(f) nodes
\* that has not ended after Len(f) hops never ends
ReachesRoot(f, n) == is_root(f[Up(f, n, Len(f))])

\* what is left of a call whose compress never returns: the recursion of
\* forest.rs:105 exhausts the stack and the process is aborted
StackOverflow == [ok |-> FALSE, overflow |-> TRUE]

\* the process has not been aborted
Running == last # StackOverflow

\* CompressedForest::try_link on any two handles whose compress returns
LinkAny(id_a, id_b) ==
    /\ Running
    /\ ReachesRoot(nodes, id_a) /\ ReachesRoot(nodes, id_b)
    /\ LET r == try_link(op, nodes, id_a, id_b) IN
       /\ nodes' = r.nodes
       /\ ref' = IF r.res.ok THEN RefLink(ref, id_a, id_b) ELSE ref
       /\ last' = Call(r.res)
    /\ UNCHANGED op

\* try_eval, try_update or try_link on a handle id whose parent chain does
\* not end: compress(id) recurses until the stack overflows
Diverge(id) ==
    /\ Running
    /\ ~ReachesRoot(nodes, id)
    /\ last' = StackOverflow
    /\ UNCHANGED <<op, nodes, ref>>

NextAny ==
    \/ \E value \in NewRootValues(op) : Running /\ NewRoot(value)
    \/ \E id_a \in Ids, id_b \in Ids : LinkAny(id_a, id_b)
    \/ \E id \in Ids, value \in UpdateValues(op) :
          Running /\ ReachesRoot(nodes, id) /\ Update(id, value)
    \/ \E id \in Ids : Running /\ ReachesRoot(nodes, id) /\ Eval(id)
    \/ \E id \in Ids : Diverge(id)

\* the forest over sequence concatenation, with try_link called on any two
\* issued handles
SpecAny == Init /\ [][NextAny]_vars

\* ---------------------------------------------------------------- helpers

\* the nodes of the tree of n in the forest f
TreeOf(f, n) == {m \in 1..Len(f) : RootOf(f, m) = RootOf(f, n)}

\* the number of parent hops from n to its root in the forest f
Depth(f, n) == Len(PathValues(f, n)) - 1

\* what try_eval(id) would return in the storage ns
EvalIn(ns, id) == try_eval(op, ns, id).res

\* ------------------------------------------------------------------ C1

\* C1: over the total, associative, non-commutative operator, with every
\* link joining two different trees, try_eval(id) returns in every reachable
\* state exactly the left-to-right fold value(r) (+) ... (+) value(id) of the
\* path from the root r to id in the uncompressed reference forest.
C1_EvalIsReferenceFold ==
    \A id \in Ids : EvalIn(nodes, id) = RefEval(op, ref, id)

\* a node lies three links below its root in the reference forest, under
\* letters that tell the order apart, and a compression has stored it
\* directly under the root
C1_Witness ==
    /\ last.ok
    /\ \E id \in Ids :
          /\ Depth(ref, id) = 3
          /\ Depth(nodes, id) = 1
          /\ PathValues(ref, id) = <<1, 2, 2, 1>>

\* ------------------------------------------------------------------ C2

FoldBelowRoot(n) == FoldLeft(op, Tail(PathValues(ref, n)))

\* C3: a try_update(id, v) on a non-root node succeeds; afterwards the root r
\* of id's tree evaluates to v, every other node n of that tree evaluates to
\* associate(v, s(n)) with s(n) the former fold of the path from r to n
\* without r, the value stored for id is that fold s(id) and not v, and the
\* nodes of every other tree evaluate as before.
C3_UpdateTargetsRoot ==
    \A id \in Ids, v \in UpdateValues(op) :
       ~is_root(nodes[id]) =>
          LET u == try_update(op, nodes, id, v)
              r == RootOf(nodes, id)
          IN  /\ u.res = Ok(Unit)
              /\ EvalIn(u.nodes, r) = Ok(v)
              /\ \A n \in TreeOf(nodes, id) \ {r} :
                    EvalIn(u.nodes, n) = associate(op, v, FoldBelowRoot(n).v)
              /\ u.nodes[id].value = FoldBelowRoot(id).v
              /\ \A m \in Ids \ TreeOf(nodes, id) :
                    EvalIn(u.nodes, m) = EvalIn(nodes, m)

\* beside a second tree, a node two links below its root is stored directly
\* under the root with the fold below the root, and the root holds another
\* value than the node was given
C3_Witness ==
    \E id \in Ids, m \in Ids :
       /\ last.ok
       /\ Depth(ref, id) = 2 /\ Depth(nodes, id) = 1
       /\ nodes[id].value = FoldBelowRoot(id).v
       /\ ref[RootOf(ref, id)].value # ref[id].value
       /\ RootOf(nodes, m) # RootOf(nodes, id)

\* ------------------------------------------------------------------ C4

\* try_link(id_a, id_b) gets as far as the compensation: the compressions of
\* id_a and of id_b both succeed and id_a is not the root of its tree
ReachesCompensation(id_a, id_b) ==
    LET ca == IF is_root(nodes[id_a]) THEN Outcome(nodes, Ok(Unit), <<>>)
                                      ELSE compress(op, nodes, id_a)
    IN  /\ ~is_root(nodes[id_a])
        /\ ca.res.ok
        /\ is_root(ca.nodes[id_b]) \/ compress(op, ca.nodes, id_b).res.ok

\* C4: when try_link(id_a, id_b) returns Err because the compensation
\* associate(value(id_a), value(r_b)) fails, r_b is still a root with its
\* value unchanged and every node of id_b's tree evaluates as before the call.
C4_LinkFailureAtomic ==
    [][\A id_a \in Ids, id_b \in Ids :
          (/\ Link(id_a, id_b)
           /\ ReachesCompensation(id_a, id_b)
           /\ ~last'.ok) =>
             LET r_b == RootOf(nodes, id_b) IN
             /\ nodes'[r_b] = nodes[r_b]
             /\ \A n \in TreeOf(nodes, id_b) : EvalIn(nodes', n) = EvalIn(nodes, n)
      ]_vars

\* ------------------------------------------------------------------ C5

\* C5: when try_eval or try_update returns Err, try_eval of every node
\* returns afterwards what it would have returned before the failed call,
\* and a failed try_update leaves the value of the root as it was.
C5_FailureContainment ==
    /\ \A id \in Ids :
          LET e == try_eval(op, nodes, id) IN
          ~e.res.ok => \A n \in Ids : EvalIn(e.nodes, n) = EvalIn(nodes, n)
    /\ \A id \in Ids, v \in UpdateValues(op) :
          LET u == try_update(op, nodes, id, v)
              r == RootOf(nodes, id)
          IN  ~u.res.ok =>
                 /\ \A n \in Ids : EvalIn(u.nodes, n) = EvalIn(nodes, n)
                 /\ u.nodes[r].value = nodes[r].value

\* the last call failed and left a chain partly compressed: x holds a
\* combined value directly under the root, k is still stored under x, and
\* both try_eval(k) and try_update(k, v) fail while try_eval(x) succeeds
C5_Witness ==
    \E x \in Ids, k \in Ids :
       /\ ~last.ok
       /\ nodes[k].parent = x
       /\ Depth(nodes, x) = 1 /\ Depth(ref, x) = 2
       /\ nodes[x].value # ref[x].value
       /\ ~EvalIn(nodes, k).ok
       /\ EvalIn(nodes, x).ok
       /\ \A v \in UpdateValues(op) : ~try_update(op, nodes, k, v).res.ok

\* ------------------------------------------------------------------ C6

\* C6: when try_eval(id) succeeds, a second try_eval(id) right after it
\* returns the same value and leaves the parent and value of every node as
\* the first call left them.
C6_EvalIdempotent ==
    \A id \in Ids :
       LET first == try_eval(op, nodes, id)
           second == try_eval(op, first.nodes, id)
       IN  first.res.ok =>
              /\ second.res = first.res
              /\ second.nodes = first.nodes

\* a compressed state: every node of a tree four nodes deep is stored
\* directly under the root, so that try_eval has nothing left to rewrite
C6_Witness ==
    /\ last.ok
    /\ \E id \in Ids : Depth(ref, id) = 3
    /\ \A id \in Ids : Depth(nodes, id) <= 1

\* ------------------------------------------------------------------ C7

\* C7: try_eval of a node that is currently a root returns the value given
\* by new_root or by the latest successful update of its tree, however many
\* trees were linked under it, and changes no node record; linking a root b
\* under a root a leaves eval(a) = va and gives eval(b) = associate(va, vb).
C7_RootFoldIsItsValue ==
    /\ \A r \in Ids :
          is_root(nodes[r]) =>
             try_eval(op, nodes, r) = Outcome(nodes, Ok(ref[r].value), <<>>)
    /\ \A a \in Ids, b \in Ids :
          (a # b /\ is_root(nodes[a]) /\ is_root(nodes[b])) =>
             LET l == try_link(op, nodes, a, b) IN
             /\ l.res = Ok(Unit)
             /\ EvalIn(l.nodes, a) = Ok(nodes[a].value)
             /\ EvalIn(l.nodes, b) = associate(op, nodes[a].value, nodes[b].value)

\* a root r that holds 2 and has two trees linked under it, one of them of
\* two nodes
C7_Witness ==
    \E r \in Ids, n \in Ids, m \in Ids :
       /\ last.ok
       /\ is_root(nodes[r]) /\ n # m
       /\ ref[n].parent = r /\ ref[m].parent = r
       /\ ref[r].value = 2 /\ ref[n].value = 1 /\ ref[m].value = 1
       /\ \E k \in Ids : ref[k].parent = n

\* ------------------------------------------------------------------ C8

\* the Err an operation returns is the Err of the last associate call it
\* made, and every associate call before that one returned Ok
ErrIsFromAssociate(r) ==
    ~r.res.ok =>
       /\ r.log # <<>>
       /\ r.res = associate(op, r.log[Len(r.log)][1], r.log[Len(r.log)][2])
       /\ \A i \in 1..(Len(r.log) - 1) : associate(op, r.log[i][1], r.log[i][2]).ok

\* the operation succeeded without calling associate
OkWithoutAssociate(r) == r.res.ok /\ r.log = <<>>

\* C8: an operation returns Err only if an associate call made during it
\* returned Err, and returns that very error; with an operator that fails on
\* every pair, new_root, try_eval on a root, try_update on a root and
\* try_link of two roots succeed, because they call associate not at all.
C8_OnlyAssociateFails ==
    /\ \A v \in NewRootValues(op) : OkWithoutAssociate(forest_new_root(nodes, v))
    /\ \A id \in Ids :
          /\ ErrIsFromAssociate(try_eval(op, nodes, id))
          /\ is_root(nodes[id]) => OkWithoutAssociate(try_eval(op, nodes, id))
    /\ \A id \in Ids, v \in UpdateValues(op) :
          /\ ErrIsFromAssociate(try_update(op, nodes, id, v))
          /\ is_root(nodes[id]) => OkWithoutAssociate(try_update(op, nodes, id, v))
    /\ \A id_a \in Ids, id_b \in Ids :
          RootOf(nodes, id_a) # RootOf(nodes, id_b) =>
             /\ ErrIsFromAssociate(try_link(op, nodes, id_a, id_b))
             /\ (is_root(nodes[id_a]) /\ is_root(nodes[id_b])) =>
                   OkWithoutAssociate(try_link(op, nodes, id_a, id_b))

\* under the operator that fails on every pair: a call has just failed in a
\* forest where two roots were linked with success, the root was updated
\* with success afterwards, and a fresh root stands beside them
C8_Witness ==
    \E r \in Ids, n \in Ids, m \in Ids :
       /\ op = "FailAll" /\ ~last.ok
       /\ ref[n].parent = r /\ nodes[n].parent = r
       /\ is_root(nodes[r]) /\ nodes[r].value = 2 /\ nodes[n].value = 1
       /\ is_root(nodes[m]) /\ m # r
       /\ ~EvalIn(nodes, n).ok

\* ------------------------------------------------------------------ C9

\* C9: new_root(v) appends exactly one node, a root with value v, returns a
\* handle that denotes it and is greater than every handle issued before,
\* and leaves every existing node as it was; try_link, try_update and
\* try_eval, failed or not, leave the number of nodes as it is, and every
\* stored parent is an issued handle.
C9_AppendOnly ==
    /\ \A v \in NewRootValues(op) :
          LET r == forest_new_root(nodes, v) IN
          /\ Len(r.nodes) = Len(nodes) + 1
          /\ SubSeq(r.nodes, 1, Len(nodes)) = nodes
          /\ r.res.ok
          /\ r.res.v \in 1..Len(r.nodes)
          /\ r.nodes[r.res.v] = [parent |-> None, value |-> v]
          /\ \A id \in Ids : r.res.v > id
    /\ \A id \in Ids : Len(try_eval(op, nodes, id).nodes) = Len(nodes)
    /\ \A id \in Ids, v \in UpdateValues(op) :
          Len(try_update(op, nodes, id, v).nodes) = Len(nodes)
    /\ \A id_a \in Ids, id_b \in Ids :
          RootOf(nodes, id_a) # RootOf(nodes, id_b) =>
             Len(try_link(op, nodes, id_a, id_b).nodes) = Len(nodes)
    /\ Len(ref) = Len(nodes)
    /\ \A id \in Ids : nodes[id].parent \in {None} \cup (Ids \ {id})

\* a call has just failed in a forest of as many nodes as new_root may
\* create, some of them linked
C9_Witness ==
    /\ ~last.ok
    /\ Len(nodes) = MaxNodes
    /\ \E id \in Ids : Depth(nodes, id) = 2

\* ------------------------------------------------------------------ C10

\* C10: over the total associative operator and links between different
\* trees, every node n stored directly under a root r has
\* associate(value(r), value(n)) equal to the reference fold of the whole
\* path from r to n, and for every non-root node the fold of the stored
\* values along its stored parent chain equals that reference fold.
C10_CompressionInvariant ==
    \A n \in Ids :
       ~is_root(nodes[n]) =>
          /\ is_root(nodes[nodes[n].parent]) =>
                associate(op, nodes[nodes[n].parent].value, nodes[n].value)
                   = RefEval(op, ref, n)
          /\ FoldLeft(op, PathValues(nodes, n)) = RefEval(op, ref, n)

\* a node three links below its root was compressed directly under the root
\* and holds the fold of the path below the root, while another node is
\* still stored two hops from the root
C10_Witness ==
    \E n \in Ids, m \in Ids :
       /\ Depth(ref, n) = 3 /\ Depth(nodes, n) = 1
       /\ nodes[n].value # ref[n].value
       /\ Depth(nodes, m) = 2

\* ----------------------------------------------------------------- C11

\* the parent chain of n in forest f, from the child of the root down to n;
\* empty when n is a root
RECURSIVE ChainTo(_, _)
ChainTo(f, n) ==
    IF f[n].parent = None THEN <<>> ELSE Append(ChainTo(f, f[n].parent), n)

\* the nodes of the parent chain of n, the root left out
ChainNodes(f, n) == {ChainTo(f, n)[i] : i \in 1..Len(ChainTo(f, n))}

\* C11: after a successful compress(k) on a node k that is not a root, the
\* stored parent of k and of every node that was on k's parent chain below
\* the root is the root of k's tree, and the root's record (no parent, its
\* value) is as it was.
C11_CompressPostcondition ==
    \A k \in Ids :
       ~is_root(nodes[k]) =>
          LET c == compress(op, nodes, k)
              r == RootOf(nodes, k)
          IN  c.res.ok =>
                 /\ \A n \in ChainNodes(nodes, k) : c.nodes[n].parent = r
                 /\ c.nodes[r] = nodes[r]
                 /\ is_root(c.nodes[r])

\* a chain of three nodes below a root (the reference forest still holds
\* it) has been compressed: all three are stored directly under the root
C11_Witness ==
    \E k \in Ids :
       /\ Depth(ref, k) = 3
       /\ \A n \in ChainNodes(ref, k) : Depth(nodes, n) = 1
       /\ RootOf(nodes, k) = RootOf(ref, k)
       /\ nodes[k].value # ref[k].value

\* ----------------------------------------------------------------- C12

\* the combination of the stored values on the chain of n below its root,
\* which is the value compress leaves in n
ChainFold(ns, n) == FoldLeft(op, Tail(PathValues(ns, n)))

\* what a successful try_link(id_a, id_b) between different trees does to
\* the two roots, the value of r_b left aside
LinkedRootToRoot(l, id_a, id_b) ==
    LET r_a == RootOf(nodes, id_a)
        r_b == RootOf(nodes, id_b)
    IN  /\ l.nodes[r_b].parent = r_a
        /\ is_root(l.nodes[r_a])
        /\ l.nodes[r_a].value = nodes[r_a].value

\* C12 as stated: after a successful try_link(id_a, id_b) between different
\* trees r_b is stored under r_a, r_a is still a root with its value, and
\* the stored value of r_b differs from what it was if and only if id_a is
\* not r_a.
C12_ValueChangedIffNotRoot ==
    \A id_a \in Ids, id_b \in Ids :
       RootOf(nodes, id_a) # RootOf(nodes, id_b) =>
          LET l == try_link(op, nodes, id_a, id_b)
              r_b == RootOf(nodes, id_b)
          IN  l.res.ok =>
                 /\ LinkedRootToRoot(l, id_a, id_b)
                 /\ (l.nodes[r_b].value # nodes[r_b].value)
                       <=> (id_a # RootOf(nodes, id_a))

\* C12: after a successful try_link(id_a, id_b) between different trees r_b
\* is stored under r_a, r_a is still a root with its value, and the stored
\* value of r_b is associate(value(id_a), value(r_b)) when id_a is not r_a
\* (value(id_a) being the combination of id_a's chain below r_a) and is not
\* written when id_a is r_a.
C12_LinkRootToRoot ==
    \A id_a \in Ids, id_b \in Ids :
       RootOf(nodes, id_a) # RootOf(nodes, id_b) =>
          LET l == try_link(op, nodes, id_a, id_b)
              r_b == RootOf(nodes, id_b)
          IN  l.res.ok =>
                 /\ LinkedRootToRoot(l, id_a, id_b)
                 /\ l.nodes[r_b].value =
                       IF id_a # RootOf(nodes, id_a)
                       THEN associate(op, ChainFold(nodes, id_a).v,
                                      nodes[r_b].value).v
                       ELSE nodes[r_b].value

\* a root has been linked under a node a that is not a root and whose stored
\* value is 0: it is stored under a's root with the value it had
C12_Witness ==
    \E a \in Ids, b \in Ids :
       /\ ref[b].parent = a
       /\ ~is_root(nodes[a]) /\ nodes[a].value = 0
       /\ nodes[b].parent = nodes[a].parent
       /\ is_root(nodes[nodes[a].parent])
       /\ nodes[b].value = ref[b].value
       /\ last.ok

\* ----------------------------------------------------------------- C13

\* the roots of the stored forest
Roots(ns) == {n \in 1..Len(ns) : is_root(ns[n])}

\* the storage ns that a call leaves: no node that had a parent is a root
\* in it
NoNewRoot(ns) == \A n \in Ids : ~is_root(nodes[n]) => ~is_root(ns[n])

\* every node has in the storage ns the root it has now
SameRoots(ns) == \A n \in Ids : RootOf(ns, n) = RootOf(nodes, n)

\* C13: whatever call is made next, a node that has a parent keeps having
\* one; a try_eval or try_update, failed or not, changes neither the set of
\* roots nor the root of any node; a successful try_link(id_a, id_b) between
\* different trees takes exactly r_b out of the set of roots and leaves
\* every node of id_a's tree with the root it had.
C13_NoReRooting ==
    /\ \A id \in Ids :
          LET e == try_eval(op, nodes, id)
          IN  NoNewRoot(e.nodes) /\ Roots(e.nodes) = Roots(nodes)
                 /\ SameRoots(e.nodes)
    /\ \A id \in Ids, value \in UpdateValues(op) :
          LET u == try_update(op, nodes, id, value)
          IN  NoNewRoot(u.nodes) /\ Roots(u.nodes) = Roots(nodes)
                 /\ SameRoots(u.nodes)
    /\ \A id_a \in Ids, id_b \in Ids :
          RootOf(nodes, id_a) # RootOf(nodes, id_b) =>
             LET l == try_link(op, nodes, id_a, id_b)
             IN  /\ NoNewRoot(l.nodes)
                 /\ l.res.ok =>
                       /\ Roots(l.nodes) = Roots(nodes) \ {RootOf(nodes, id_b)}
                       /\ \A n \in TreeOf(nodes, id_a) :
                             RootOf(l.nodes, n) = RootOf(nodes, n)

\* four nodes in two trees, one of them with a node that was linked two
\* levels below its root and has since been compressed under that root
C13_Witness ==
    /\ Len(nodes) = MaxNodes
    /\ Cardinality(Roots(nodes)) = 2
    /\ \E n \in Ids :
          /\ Depth(ref, n) = 2 /\ Depth(nodes, n) = 1
          /\ RootOf(nodes, n) = RootOf(ref, n)

\* ----------------------------------------------------------------- C14

\* compress(k) failed into outcome c at position j of k's chain ch: the
\* combine of ch[j] with its parent ch[j-1] is the Err returned, ch[j] and
\* the nodes below it are as they were, the nodes above it are children of
\* the root r holding the combination of the chain down to them
FailedAt(c, ch, j, r) ==
    /\ c.res = associate(op, c.nodes[ch[j - 1]].value, nodes[ch[j]].value)
    /\ \A i \in j..Len(ch) : c.nodes[ch[i]] = nodes[ch[i]]
    /\ \A i \in 1..(j - 1) :
          /\ c.nodes[ch[i]].parent = r
          /\ Ok(c.nodes[ch[i]].value) = ChainFold(nodes, ch[i])

\* C14: when compress(k) fails, it fails at some node x of k's parent chain
\* whose combine with its parent returned the Err; x and the nodes below it
\* down to k keep their parent and value, and every node of the chain above
\* x is stored under the root with the accumulated combination as value.
C14_PartialCompression ==
    \A k \in Ids :
       ~is_root(nodes[k]) =>
          LET c == compress(op, nodes, k)
              ch == ChainTo(nodes, k)
          IN  ~c.res.ok =>
                 \E j \in 2..Len(ch) : FailedAt(c, ch, j, RootOf(nodes, k))

\* a failed call on k has compressed k's parent x, linked two levels below
\* the root, and left k under x as it was; compress(k) fails again
C14_Witness ==
    \E k \in Ids :
       LET x == nodes[k].parent IN
       /\ ~last.ok
       /\ Depth(ref, k) = 3 /\ ref[k] = nodes[k]
       /\ ~is_root(nodes[k])
       /\ Depth(nodes, x) = 1 /\ Depth(ref, x) = 2
       /\ nodes[x].value # ref[x].value
       /\ ~compress(op, nodes, k).res.ok

\* ----------------------------------------------------------------- C15

\* C15: a successful try_eval(id) keeps the number of nodes, rewrites only
\* nodes of id's parent chain that are neither the root nor children of the
\* root (id itself when it is such a node), leaves the root's value alone,
\* and every node of the forest evaluates after it to what it evaluated to
\* before.
C15_EvalFrame ==
    \A id \in Ids :
       LET e == try_eval(op, nodes, id)
           r == RootOf(nodes, id)
       IN  e.res.ok =>
              /\ Len(e.nodes) = Len(nodes)
              /\ \A n \in Ids :
                    e.nodes[n] # nodes[n] =>
                       n \in ChainNodes(nodes, id) /\ Depth(nodes, n) >= 2
              /\ e.nodes[r].value = nodes[r].value
              /\ \A n \in Ids : EvalIn(e.nodes, n) = EvalIn(nodes, n)

\* two nodes were linked under the same child of a root; a call on k has
\* moved k under the root, and its sibling m is still stored where it was
C15_Witness ==
    \E k \in Ids, m \in Ids :
       /\ k # m /\ last.ok
       /\ Depth(ref, k) = 2 /\ ref[m].parent = ref[k].parent
       /\ Depth(nodes, k) = 1 /\ nodes[k].value # ref[k].value
       /\ nodes[m] = ref[m] /\ Depth(nodes, m) = 2

\* ----------------------------------------------------------------- C16

\* the nodes reached from n by one parent hop or more in the forest f
Ancestors(f, n) ==
    IF is_root(f[n]) THEN {}
    ELSE {Up(f, f[n].parent, i) : i \in 0..(Len(f) - 1)}

\* C16: after any calls of new_root, try_link, try_update and try_eval on
\* issued handles, links inside one tree and of a node with itself
\* included, no node is its own parent or ancestor and the parent chain of
\* every node ends at a root.
C16_ParentsAcyclic ==
    \A n \in Ids :
       /\ nodes[n].parent # n
       /\ n \notin Ancestors(nodes, n)
       /\ ReachesRoot(nodes, n)

\* ----------------------------------------------------------------- C17

\* the number of nested invocations of compress that compress(key) makes in
\* the forest f, itself included, counted up to fuel recursive calls
RECURSIVE CompressCalls(_, _, _)
CompressCalls(f, key, fuel) ==
    IF is_root(f[f[key].parent]) \/ fuel = 0
    THEN 1
    ELSE 1 + CompressCalls(f, f[key].parent, fuel - 1)

\* C17: in every state reached by calls on issued handles the compress(k)
\* that try_eval, try_link and try_update run on a node k that is not a root
\* returns: k's parent chain ends at a root, the recursion is no deeper than
\* the number of parent hops from k to that root, and a successful
\* compress(k) calls associate once for every node of the chain whose parent
\* is not the root (never when k's parent is the root).
C17_Termination ==
    \A k \in Ids :
       ~is_root(nodes[k]) =>
          /\ ReachesRoot(nodes, k)
          /\ CompressCalls(nodes, k, Len(nodes)) <= Depth(nodes, k)
          /\ LET c == compress(op, nodes, k)
             IN  c.res.ok =>
                    Len(c.log) = Cardinality(
                       {n \in ChainNodes(nodes, k) : Depth(nodes, n) >= 2})

\* ----------------------------------------------------------------- C18

\* C18: over checked addition, try_eval(id) returns Err only if the
\* left-to-right combination of the values on id's path in the reference
\* forest is Err; when that combination is defined try_eval(id) returns it,
\* and try_update(id, value) does not fail.
C18_FailsOnlyWithReferenceFold ==
    \A id \in Ids :
       /\ ~EvalIn(nodes, id).ok => ~RefEval(op, ref, id).ok
       /\ RefEval(op, ref, id).ok =>
             /\ EvalIn(nodes, id) = RefEval(op, ref, id)
             /\ \A value \in UpdateValues(op) :
                   try_update(op, nodes, id, value).res.ok

====
